---- MODULE Spec2Model ----
(***************************************************************************)
(* A model of bittranslate's Validator (src/bittranslate/validator.py) and *)
(* of the PeerSum prompt dataset (src/bittranslate/prompt_dataset/         *)
(* peer_sum.py).                                                           *)
(*                                                                         *)
(* Three specifications share the module:                                  *)
(*   Spec        one call of Validator.score, statement by statement       *)
(*   SpecSingle  Validator.single_score / _filter_lang as pure functions   *)
(*   SpecGen     _select_lang_pair, generate_cases, PeerSum.sample_case    *)
(*                                                                         *)
(* Scores are fixed-point numbers.  A sigmoid-normalised score is counted  *)
(* in units of 1/SigmoidScale, a weight in units of 1/WeightScale, so a    *)
(* composite score is counted in units of 1/ScoreOne and the float 1.0 is  *)
(* ScoreOne.  final_scores are exact fractions [num, den].                 *)
(***************************************************************************)
EXTENDS Integers, Sequences, FiniteSets, TLC

\* ------------------------------------------------------------------ bounds
MaxSources == 2
MaxMiners == 2
MaxCount == 2
MaxDatasetLen == 2

\* ------------------------------------------------------------ fixed point
SigmoidScale == 1000
WeightScale == 2
ScoreOne == SigmoidScale * WeightScale

Min2(a, b) == IF a <= b THEN a ELSE b

\* Python's zip(xs, ys): as long as the shorter argument.
ZipLen(xs, ys) == Min2(Len(xs), Len(ys))

\* Python's max(xs) and min(xs) of a non-empty list.
MaxOf(xs) == CHOOSE m \in {xs[i] : i \in 1..Len(xs)} : \A i \in 1..Len(xs) : xs[i] <= m
MinOf(xs) == CHOOSE m \in {xs[i] : i \in 1..Len(xs)} : \A i \in 1..Len(xs) : xs[i] >= m

\* Python's xs.index(v): the first position holding v (1-based here).
IndexOf(xs, v) == CHOOSE i \in 1..Len(xs) : xs[i] = v /\ \A k \in 1..(i - 1) : xs[k] # v

\* --------------------------------------------------------- Validator state
\* self._reward_weights = [0.5, 0.5], in units of 1/WeightScale.
\* (the variant [1.0, 1.0])
reward_weights_of_one == <<2, 2>>
reward_weights == <<1, 1>>
NumModels == Len(reward_weights)

\* What langdetect's detect(translation) can do: return a code or raise.
DetectFail == "LangDetectException"
DetectOutcomes == {"de", "en", DetectFail}

\* Raw reward-model scores.  np.exp overflows to inf below about -709.8, so the
\* sigmoid is exactly 0.0 there, and 1 + exp(-x) rounds to 1.0 from about 37 on,
\* so the sigmoid is exactly 1.0 there; the other values are rounded to 1/1000.
RawScores == {-800, 0, 1, 40}
\* The raw scores drawn per candidate in a call of score, where every source of
\* the batch multiplies the cases: the two the sigmoid saturates.
SaturatedRawScores == {-800, 40}

\* One element of _sigmoid_normalize: 1 / (1 + exp(-x)), in units of 1/SigmoidScale.
Sigmoid(x) ==
  IF x <= -710 THEN 0
  ELSE IF x >= 37 THEN SigmoidScale
  ELSE CASE x = -1 -> 269
         [] x = 0 -> 500
         [] x = 1 -> 731

sigmoid_normalize(scores) == [i \in 1..Len(scores) |-> Sigmoid(scores[i])]

\* _filter_lang: `detected[i]` is what detect(translations[i]) does.
\* (the variant in which the first detection failure ends the loop)
FilterLangStopsAtFailure(detected, target) ==
  LET fails == {i \in 1..Len(detected) : detected[i] = DetectFail}
      n == IF fails = {} THEN Len(detected)
           ELSE (CHOOSE i \in fails : \A k \in fails : i <= k) - 1
  IN [i \in 1..n |-> IF detected[i] = target THEN 1 ELSE 0]
FilterLang(detected, target) ==
  [i \in 1..Len(detected) |-> IF detected[i] = DetectFail THEN 0
                               ELSE IF detected[i] = target THEN 1 ELSE 0]

\* Lines 143: the weighted scores of reward model k.
WeightedScores(scores, k) ==
  LET norm_scores == sigmoid_normalize(scores)
  IN [i \in 1..Len(norm_scores) |-> norm_scores[i] * reward_weights[k]]

\* The loop of single_score over the first k reward models: raw[k] is what
\* reward model k returns for (source, translations).
RECURSIVE RewardScores(_, _, _)
RewardScores(raw, k, n) ==
  IF k = 0 THEN [i \in 1..n |-> 0]
  ELSE LET current == RewardScores(raw, k - 1, n)
           weighted == WeightedScores(raw[k], k)
       IN [i \in 1..ZipLen(current, weighted) |-> current[i] + weighted[i]]

\* (the variant without line 151's multiplication by lang_filter)
SingleScoreNoGate(detected, raw, target) ==
  RewardScores(raw, NumModels, Len(detected))
SingleScore(detected, raw, target) ==
  LET lang_filter == FilterLang(detected, target)
      reward_scores == RewardScores(raw, NumModels, Len(detected))
  IN [i \in 1..ZipLen(lang_filter, reward_scores) |-> lang_filter[i] * reward_scores[i]]

\* ------------------------------------------------------------------ texts
EmptyText == <<>>
SourceText(j) == <<"s", j>>
TranslationText(j, i) == <<"t", j, i>>

\* --------------------------------------------------------------- variables
VARIABLES
  \* Validator.score: the position in the call, its arguments and its locals
  pc, source_lang, target_lang, len_sources, miners_count, idx,
  all_scores,
  overall_top_max_score, overall_top_max_source, overall_top_max_target,
  overall_top_min_score, overall_top_min_source, overall_top_min_target,
  top_translations, top_scores, final_scores,
  \* what single_score returned for each source so far, in order
  single_scores,
  \* self.tracker, the calls made on it, and how the call of score ended
  tracker, track_calls, result, raised,
  \* single_score as a function: its inputs and its outputs
  s_pc, s_target, s_detected, s_raw, s_lang_filter, s_result,
  \* _select_lang_pair, generate_cases, PeerSum.sample_case
  g_pc, dataset_len, random_0_1, lang_pair, source_dataset, count, samples,
  sample_error, peer_language, peer_outcome

scoreVars == <<pc, source_lang, target_lang, len_sources, miners_count, idx,
               all_scores,
               overall_top_max_score, overall_top_max_source, overall_top_max_target,
               overall_top_min_score, overall_top_min_source, overall_top_min_target,
               top_translations, top_scores, final_scores, single_scores,
               tracker, track_calls, result, raised>>
singleVars == <<s_pc, s_target, s_detected, s_raw, s_lang_filter, s_result>>
genVars == <<g_pc, dataset_len, random_0_1, lang_pair, source_dataset, count, samples,
             sample_error, peer_language, peer_outcome>>
vars == <<scoreVars, singleVars, genVars>>

\* ---------------------------------------------------------------- tracker
\* ValidatorTracker: per language pair, a rolling window of score vectors and
\* the best and worst exemplar seen.
TRACKER_HISTORY_COUNT == 10
NoResult == "NoResult"
EmptyTracker == [scores |-> <<>>, texts |-> <<>>]

TrackerScores(tr, pair) ==
  IF pair \in DOMAIN tr.scores THEN tr.scores[pair] ELSE <<>>

track_scores(tr, src, tgt, scores) ==
  LET pair == <<src, tgt>>
      old == TrackerScores(tr, pair)
      kept == IF Len(old) >= TRACKER_HISTORY_COUNT THEN Tail(old) ELSE old
  IN [tr EXCEPT !.scores = (pair :> Append(kept, scores)) @@ tr.scores]

track_texts(tr, src, tgt, min_source, min_target, min_score, max_source, max_target, max_score) ==
  LET pair == <<src, tgt>>
      worst == [source |-> min_source, target |-> min_target, score |-> min_score]
      best == [source |-> max_source, target |-> max_target, score |-> max_score]
      entry == IF pair \in DOMAIN tr.texts
               THEN LET e == tr.texts[pair]
                    IN [worst |-> IF min_score < e.worst.score THEN worst ELSE e.worst,
                        best |-> IF max_score > e.best.score THEN best ELSE e.best]
               ELSE [worst |-> worst, best |-> best]
  IN [tr EXCEPT !.texts = (pair :> entry) @@ tr.texts]

\* ------------------------------------------------------- Validator.score
\* The language pairs a modelled call of score is made with.
ScoreLangPairs == {<<"en", "de">>, <<"de", "en">>}

InitScore ==
  /\ pc = "idle"
  /\ source_lang = "" /\ target_lang = ""
  /\ len_sources = 0 /\ miners_count = 0 /\ idx = 0
  /\ all_scores = <<>>
  /\ overall_top_max_score = 0
  /\ overall_top_max_source = EmptyText /\ overall_top_max_target = EmptyText
  /\ overall_top_min_score = 0
  /\ overall_top_min_source = EmptyText /\ overall_top_min_target = EmptyText
  /\ top_translations = <<>> /\ top_scores = <<>>
  /\ final_scores = <<>>
  /\ single_scores = <<>>
  /\ tracker = EmptyTracker
  /\ track_calls = <<>>
  /\ result = NoResult
  /\ raised = "none"

\* Lines 63-75: score is called with S sources and M translations of each.
ScoreCall ==
  /\ pc = "idle"
  /\ \E S \in 1..MaxSources, M \in 1..MaxMiners, pair \in ScoreLangPairs :
       /\ source_lang' = pair[1]
       /\ target_lang' = pair[2]
       /\ len_sources' = S
       /\ miners_count' = M
       /\ all_scores' = [i \in 1..M |-> 0]
  /\ idx' = 0
  /\ overall_top_max_score' = 0
  /\ overall_top_max_source' = EmptyText
  /\ overall_top_max_target' = EmptyText
  /\ overall_top_min_score' = (11 * ScoreOne) \div 10
  /\ overall_top_min_source' = EmptyText
  /\ overall_top_min_target' = EmptyText
  /\ top_translations' = <<>>
  /\ top_scores' = <<>>
  /\ pc' = "loop"
  /\ UNCHANGED <<final_scores, single_scores, tracker, track_calls, result, raised>>
  /\ UNCHANGED <<singleVars, genVars>>

\* Lines 82-101: the body of the loop for source idx+1, given the scores that
\* single_score returned for it.
LoopBody(scores) ==
  LET j == idx + 1
      max_score == MaxOf(scores)
      min_score == MinOf(scores)
      max_score_index == IndexOf(scores, max_score)
      min_score_index == IndexOf(scores, min_score)
      max_score_value == TranslationText(j, max_score_index)
      min_score_value == TranslationText(j, min_score_index)
  IN /\ all_scores' = [i \in 1..ZipLen(all_scores, scores) |-> all_scores[i] + scores[i]]
     /\ top_translations' = Append(top_translations, max_score_value)
     /\ top_scores' = Append(top_scores, max_score)
     /\ IF max_score > overall_top_max_score
        THEN /\ overall_top_max_score' = max_score
             /\ overall_top_max_source' = SourceText(j)
             /\ overall_top_max_target' = max_score_value
        ELSE UNCHANGED <<overall_top_max_score, overall_top_max_source,
                         overall_top_max_target>>
     /\ IF min_score < overall_top_min_score
        THEN /\ overall_top_min_score' = min_score
             /\ overall_top_min_source' = SourceText(j)
             /\ overall_top_min_target' = min_score_value
        ELSE UNCHANGED <<overall_top_min_score, overall_top_min_source,
                         overall_top_min_target>>
     /\ single_scores' = Append(single_scores, scores)
     /\ idx' = j

\* Lines 77-101: one iteration of the loop in which every reward model returns.
LoopStep ==
  /\ pc = "loop"
  /\ idx < len_sources
  /\ \E detected \in [1..miners_count -> DetectOutcomes],
        raw \in [1..NumModels -> [1..miners_count -> SaturatedRawScores]] :
       LoopBody(SingleScore(detected, raw, target_lang))
  /\ UNCHANGED <<pc, source_lang, target_lang, len_sources, miners_count,
                 final_scores, tracker, track_calls, result, raised>>
  /\ UNCHANGED <<singleVars, genVars>>

\* Lines 82, 134: reward model k raises inside single_score; nothing catches it.
\* (the variant in which the failure is caught and the source skipped)
RewardModelRaisesCaught ==
  /\ pc = "loop"
  /\ idx < len_sources
  /\ \E k \in 1..NumModels : raised' = "reward_model"
  /\ idx' = idx + 1
  /\ single_scores' = Append(single_scores, [i \in 1..miners_count |-> 0])
  /\ UNCHANGED <<pc, source_lang, target_lang, len_sources, miners_count, all_scores,
                 overall_top_max_score, overall_top_max_source, overall_top_max_target,
                 overall_top_min_score, overall_top_min_source, overall_top_min_target,
                 top_translations, top_scores, final_scores,
                 tracker, track_calls, result>>
  /\ UNCHANGED <<singleVars, genVars>>
RewardModelRaises ==
  /\ pc = "loop"
  /\ idx < len_sources
  /\ \E k \in 1..NumModels : raised' = "reward_model"
  /\ pc' = "raised"
  /\ UNCHANGED <<source_lang, target_lang, len_sources, miners_count, idx, all_scores,
                 overall_top_max_score, overall_top_max_source, overall_top_max_target,
                 overall_top_min_score, overall_top_min_source, overall_top_min_target,
                 top_translations, top_scores, final_scores, single_scores,
                 tracker, track_calls, result>>
  /\ UNCHANGED <<singleVars, genVars>>

\* Line 103: final_scores = [score/len_sources for score in all_scores].
\* (the variant dividing by miners_count)
FinalScoresByMiners(totals, n, m) == [i \in 1..Len(totals) |-> [num |-> totals[i], den |-> m]]
FinalScores(totals, n, m) == [i \in 1..Len(totals) |-> [num |-> totals[i], den |-> n]]

Finalize ==
  /\ pc = "loop"
  /\ idx = len_sources
  /\ final_scores' = FinalScores(all_scores, len_sources, miners_count)
  /\ pc' = "track_scores"
  /\ UNCHANGED <<source_lang, target_lang, len_sources, miners_count, idx, all_scores,
                 overall_top_max_score, overall_top_max_source, overall_top_max_target,
                 overall_top_min_score, overall_top_min_source, overall_top_min_target,
                 top_translations, top_scores, single_scores,
                 tracker, track_calls, result, raised>>
  /\ UNCHANGED <<singleVars, genVars>>

scoreLocals == <<source_lang, target_lang, len_sources, miners_count, idx, all_scores,
                 overall_top_max_score, overall_top_max_source, overall_top_max_target,
                 overall_top_min_score, overall_top_min_source, overall_top_min_target,
                 top_translations, top_scores, final_scores, single_scores>>

\* Lines 106-110: track_scores inside try/except Exception.  `ok` is whether the
\* tracker returns; a call that raises is taken to leave the tracker as it was.
\* (the variant without the try/except)
TrackScoresUncaught ==
  /\ pc = "track_scores"
  /\ \E ok \in BOOLEAN :
       /\ track_calls' = Append(track_calls, [op |-> "track_scores", ok |-> ok,
                                               args |-> <<source_lang, target_lang, final_scores>>])
       /\ tracker' = IF ok THEN track_scores(tracker, source_lang, target_lang, final_scores)
                     ELSE tracker
       /\ pc' = IF ok THEN "track_texts" ELSE "raised"
       /\ raised' = IF ok THEN raised ELSE "tracker"
  /\ UNCHANGED <<scoreLocals, result>>
  /\ UNCHANGED <<singleVars, genVars>>
TrackScores ==
  /\ pc = "track_scores"
  /\ \E ok \in BOOLEAN :
       /\ track_calls' = Append(track_calls, [op |-> "track_scores", ok |-> ok,
                                               args |-> <<source_lang, target_lang, final_scores>>])
       /\ tracker' = IF ok THEN track_scores(tracker, source_lang, target_lang, final_scores)
                     ELSE tracker
  /\ pc' = "track_texts"
  /\ UNCHANGED <<scoreLocals, result, raised>>
  /\ UNCHANGED <<singleVars, genVars>>

\* Lines 113-125: track_texts inside try/except Exception, then the return.
TrackTexts ==
  /\ pc = "track_texts"
  /\ \E ok \in BOOLEAN :
       /\ track_calls' = Append(track_calls,
            [op |-> "track_texts", ok |-> ok,
             args |-> <<source_lang, target_lang,
                        overall_top_min_source, overall_top_min_target, overall_top_min_score,
                        overall_top_max_source, overall_top_max_target, overall_top_max_score>>])
       /\ tracker' = IF ok
                     THEN track_texts(tracker, source_lang, target_lang,
                                      overall_top_min_source, overall_top_min_target,
                                      overall_top_min_score,
                                      overall_top_max_source, overall_top_max_target,
                                      overall_top_max_score)
                     ELSE tracker
  /\ result' = <<final_scores, top_translations, top_scores>>
  /\ pc' = "returned"
  /\ UNCHANGED <<scoreLocals, raised>>
  /\ UNCHANGED <<singleVars, genVars>>

NextScore ==
  \/ ScoreCall
  \/ LoopStep
  \/ RewardModelRaises
  \/ Finalize
  \/ TrackScores
  \/ TrackTexts

\* ------------------------------------------- single_score as a function
InitSingleOff ==
  /\ s_pc = "off"
  /\ s_target = ""
  /\ s_detected = <<>>
  /\ s_raw = <<>>
  /\ s_lang_filter = <<>>
  /\ s_result = <<>>

\* The arguments of one call: a target language and, for each of M >= 1
\* translations, what detect does with it and what each reward model returns.
InitSingleInputs ==
  /\ s_pc = "called"
  /\ s_target \in {"de", "en"}
  /\ \E M \in 1..MaxMiners :
       /\ s_detected \in [1..M -> DetectOutcomes]
       /\ s_raw \in [1..NumModels -> [1..M -> RawScores]]
  /\ s_lang_filter = <<>>
  /\ s_result = <<>>

\* Lines 127-153, every reward model returning.
SingleScoreCall ==
  /\ s_pc = "called"
  /\ s_lang_filter' = FilterLang(s_detected, s_target)
  /\ s_result' = SingleScore(s_detected, s_raw, s_target)
  /\ s_pc' = "done"
  /\ UNCHANGED <<s_target, s_detected, s_raw>>
  /\ UNCHANGED <<scoreVars, genVars>>

NextSingle == SingleScoreCall

\* ------------------------------------- language pairs and prompt datasets
langs == <<"ar", "bg", "de", "el", "en", "es", "hi", "hu", "it", "pl", "pt",
           "ro", "ru", "th", "tr", "vi">>
prior_langs == <<"de", "en", "es", "it", "pl">>

InSeq(x, seq) == \E i \in 1..Len(seq) : seq[i] = x

\* list(itertools.permutations(seq, 2)): the ordered pairs of two different
\* positions, in lexicographic order of the positions.
Permutations2(seq) ==
  LET n == Len(seq)
  IN [m \in 1..(n * (n - 1)) |->
        LET i == ((m - 1) \div (n - 1)) + 1
            r == ((m - 1) % (n - 1)) + 1
            j == IF r < i THEN r ELSE r + 1
        IN <<seq[i], seq[j]>>]

lang_pairs == Permutations2(langs)
prior_lang_pairs == Permutations2(prior_langs)

\* Line 224.
new_lang_pairs == SelectSeq(lang_pairs, LAMBDA p : ~InSeq(p, prior_lang_pairs))

\* random.random(), in hundredths; line 227 compares it with 0.95.
PriorShare == 95
RandomDraws == {0, 94, 95, 99}

\* Lines 226-231: the list the pair is drawn from.
\* (the variant exploring over all of lang_pairs)
LangPairsForUnfiltered(r) == IF r < PriorShare THEN prior_lang_pairs ELSE lang_pairs
LangPairsFor(r) == IF r < PriorShare THEN prior_lang_pairs ELSE new_lang_pairs

\* Lines 233-237: random_lang_pair_index = k.
SelectLangPair(r, k) == LangPairsFor(r)[k + 1]

\* Lines 45-61: self._datasets.
\* (the variant registering xquad for "pl")
datasets_pl_xquad ==
  [l \in {langs[i] : i \in 1..Len(langs)} |->
     CASE l = "de" -> <<"german_quad", "xquad">>
       [] l = "en" -> <<"peer_sum", "xquad">>
       [] l = "tr" -> <<"exams", "xquad">>
       [] l \in {"bg", "hu", "it", "pt"} -> <<"exams">>
       [] OTHER -> <<"xquad">>]
datasets ==
  [l \in {langs[i] : i \in 1..Len(langs)} |->
     CASE l = "de" -> <<"german_quad", "xquad">>
       [] l = "en" -> <<"peer_sum", "xquad">>
       [] l = "tr" -> <<"exams", "xquad">>
       [] l \in {"bg", "hu", "it", "pl", "pt"} -> <<"exams">>
       [] OTHER -> <<"xquad">>]

ValueError == [error |-> "ValueError"]

\* PeerSum._valid_ln and PeerSum.sample_case; random_index is what
\* random.randint(0, self._dataset_len - 1) returns.
peer_sum_valid_ln == {"en"}
\* (the variant without the check of language)
PeerSumSampleCaseUnchecked(language, random_index) ==
  [text |-> <<"peer_sum", "paper_abstract", random_index>>]
PeerSumSampleCase(language, random_index) ==
  IF language \notin peer_sum_valid_ln
  THEN ValueError
  ELSE [text |-> <<"peer_sum", "paper_abstract", random_index>>]

\* The supported codes of the other prompt datasets, and their sample_case.
valid_ln ==
  [d \in {"german_quad", "exams", "xquad"} |->
     CASE d = "german_quad" -> {"de"}
       [] d = "exams" -> {"bg", "hu", "it", "pl", "pt", "tr", "vi"}
       [] d = "xquad" -> {"ar", "de", "el", "en", "es", "hi", "ro", "ru", "th", "tr", "vi"}]

DatasetSampleCase(d, language, random_index) ==
  IF language \notin valid_ln[d]
  THEN ValueError
  ELSE [text |-> <<d, language, random_index>>]

\* source_dataset.sample_case(source_lang), line 179.
SampleCase(d, language, random_index) ==
  IF d = "peer_sum" THEN PeerSumSampleCase(language, random_index)
  ELSE DatasetSampleCase(d, language, random_index)

\* _generate_prompt: the continuation mGPT generates for the text.
GeneratePrompt(text) == <<"generated_text", text>>

InitGenOff ==
  /\ g_pc = "off"
  /\ dataset_len = 1
  /\ random_0_1 = 0
  /\ lang_pair = <<>>
  /\ source_dataset = ""
  /\ count = 0
  /\ samples = <<>>
  /\ sample_error = "none"
  /\ peer_language = ""
  /\ peer_outcome = NoResult

\* After construction: every dataset holds at least one record.
InitGenOn ==
  /\ g_pc = "idle"
  /\ dataset_len \in 1..MaxDatasetLen
  /\ random_0_1 = 0
  /\ lang_pair = <<>>
  /\ source_dataset = ""
  /\ count = 0
  /\ samples = <<>>
  /\ sample_error = "none"
  /\ peer_language = ""
  /\ peer_outcome = NoResult

\* Lines 173-176 with _get_source_dataset (161-170) and _select_lang_pair.
GenerateCasesCall ==
  /\ g_pc = "idle"
  /\ \E n \in 0..MaxCount, r \in RandomDraws :
       \E k \in 0..(Len(LangPairsFor(r)) - 1) :
         LET pair == SelectLangPair(r, k)
             source_datasets == datasets[pair[1]]
         IN \E random_dataset_index \in 0..(Len(source_datasets) - 1) :
              /\ count' = n
              /\ random_0_1' = r
              /\ lang_pair' = pair
              /\ source_dataset' = source_datasets[random_dataset_index + 1]
  /\ samples' = <<>>
  /\ g_pc' = "sampling"
  /\ UNCHANGED <<dataset_len, sample_error, peer_language, peer_outcome>>
  /\ UNCHANGED <<scoreVars, singleVars>>

\* Lines 178-181: one iteration of the loop.
SampleStep ==
  /\ g_pc = "sampling"
  /\ Len(samples) < count
  /\ \E random_index \in 0..(dataset_len - 1) :
       LET starting_case == SampleCase(source_dataset, lang_pair[1], random_index)
       IN IF starting_case = ValueError
          THEN /\ sample_error' = "ValueError"
               /\ g_pc' = "raised"
               /\ UNCHANGED samples
          ELSE /\ samples' = Append(samples,
                     [dataset |-> source_dataset, language |-> lang_pair[1],
                      prompt |-> GeneratePrompt(starting_case.text)])
               /\ UNCHANGED <<sample_error, g_pc>>
  /\ UNCHANGED <<dataset_len, random_0_1, lang_pair, source_dataset, count,
                 peer_language, peer_outcome>>
  /\ UNCHANGED <<scoreVars, singleVars>>

\* Line 182.
GenerateCasesReturn ==
  /\ g_pc = "sampling"
  /\ Len(samples) = count
  /\ g_pc' = "returned"
  /\ UNCHANGED <<dataset_len, random_0_1, lang_pair, source_dataset, count, samples,
                 sample_error, peer_language, peer_outcome>>
  /\ UNCHANGED <<scoreVars, singleVars>>

\* The language codes PeerSum.sample_case is called with.
SampleLanguages == {langs[i] : i \in 1..Len(langs)} \cup {"fr", ""}

\* peer_sum.py lines 16-23, called directly.
PeerSumSample ==
  /\ g_pc = "idle"
  /\ \E language \in SampleLanguages, random_index \in 0..(dataset_len - 1) :
       /\ peer_language' = language
       /\ peer_outcome' = PeerSumSampleCase(language, random_index)
  /\ g_pc' = "peer_done"
  /\ UNCHANGED <<dataset_len, random_0_1, lang_pair, source_dataset, count, samples,
                 sample_error>>
  /\ UNCHANGED <<scoreVars, singleVars>>

NextGen ==
  \/ GenerateCasesCall
  \/ SampleStep
  \/ GenerateCasesReturn
  \/ PeerSumSample

\* --------------------------------------------------------- specifications
Init == InitScore /\ InitSingleOff /\ InitGenOff
Next == NextScore
Spec == Init /\ [][Next]_vars

InitSingle == InitScore /\ InitSingleInputs /\ InitGenOff
SpecSingle == InitSingle /\ [][NextSingle]_vars

InitGen == InitScore /\ InitSingleOff /\ InitGenOn
SpecGen == InitGen /\ [][NextGen]_vars

\* ------------------------------------------------------ claims: score
\* The sum over the first n sources of what single_score returned for miner i.
RECURSIVE ColumnSum(_, _, _)
ColumnSum(vectors, i, n) ==
  IF n = 0 THEN 0 ELSE ColumnSum(vectors, i, n - 1) + vectors[n][i]

Finalized == pc \in {"track_scores", "track_texts", "returned"}

\* C1: once score has computed final_scores, it has one entry per miner and
\* entry i is the arithmetic mean, over all S sources of the call, of what
\* single_score returned for miner i; it is the first component of the result.
C1_FinalScoresAreMean ==
  /\ Finalized =>
       /\ Len(single_scores) = len_sources
       /\ Len(final_scores) = miners_count
       /\ \A i \in 1..miners_count :
            /\ final_scores[i].den > 0
            /\ final_scores[i].num * len_sources
                 = ColumnSum(single_scores, i, len_sources) * final_scores[i].den
  /\ pc = "returned" => result[1] = final_scores

C1_Witness ==
  /\ pc = "returned"
  /\ len_sources = 2
  /\ miners_count = 2
  /\ single_scores[1][1] = ScoreOne
  /\ single_scores[2][1] = 0
  /\ single_scores[1][2] # single_scores[2][2]

\* What score returns, computed from what single_score returned per source.
ExpectedFinalScores ==
  [i \in 1..miners_count |->
     [num |-> ColumnSum(single_scores, i, Len(single_scores)), den |-> len_sources]]
FirstArgMax(scores) ==
  CHOOSE i \in 1..Len(scores) :
    /\ \A k \in 1..Len(scores) : scores[k] <= scores[i]
    /\ \A k \in 1..(i - 1) : scores[k] < scores[i]
FirstArgMin(scores) ==
  CHOOSE i \in 1..Len(scores) :
    /\ \A k \in 1..Len(scores) : scores[k] >= scores[i]
    /\ \A k \in 1..(i - 1) : scores[k] > scores[i]
ExpectedTopTranslations ==
  [j \in 1..Len(single_scores) |-> TranslationText(j, FirstArgMax(single_scores[j]))]
ExpectedTopScores ==
  [j \in 1..Len(single_scores) |-> single_scores[j][FirstArgMax(single_scores[j])]]

\* C4: a raising track_scores or track_texts never ends the call: after
\* track_scores was attempted track_texts is attempted next, whatever
\* track_scores did, and the call returns the result that the per-source
\* scores determine, whether the tracker calls succeeded or raised.
C4_TrackerFailureIsolated ==
  /\ raised # "tracker"
  /\ Len(track_calls) >= 1 =>
       /\ track_calls[1].op = "track_scores"
       /\ pc \in {"track_texts", "returned"}
  /\ pc = "returned" =>
       /\ Len(track_calls) = 2
       /\ track_calls[2].op = "track_texts"
       /\ result = <<ExpectedFinalScores, ExpectedTopTranslations, ExpectedTopScores>>

C4_Witness ==
  /\ pc = "returned"
  /\ ~track_calls[1].ok
  /\ ~track_calls[2].ok
  /\ len_sources = 2
  /\ result[3] = <<ScoreOne, ScoreOne \div 2>>

\* The global best and worst of the batch, from what single_score returned:
\* the first source whose maximum (minimum) is the highest (lowest), and in it
\* the first candidate with that score.
BestSource ==
  CHOOSE j \in 1..Len(single_scores) :
    /\ \A k \in 1..Len(single_scores) : MaxOf(single_scores[k]) <= MaxOf(single_scores[j])
    /\ \A k \in 1..(j - 1) : MaxOf(single_scores[k]) < MaxOf(single_scores[j])
WorstSource ==
  CHOOSE j \in 1..Len(single_scores) :
    /\ \A k \in 1..Len(single_scores) : MinOf(single_scores[k]) >= MinOf(single_scores[j])
    /\ \A k \in 1..(j - 1) : MinOf(single_scores[k]) > MinOf(single_scores[j])
ExpectedExemplars ==
  <<SourceText(WorstSource),
    TranslationText(WorstSource, FirstArgMin(single_scores[WorstSource])),
    MinOf(single_scores[WorstSource]),
    SourceText(BestSource),
    TranslationText(BestSource, FirstArgMax(single_scores[BestSource])),
    MaxOf(single_scores[BestSource])>>

TrackTextsArgs(c) == SubSeq(c.args, 3, 8)

\* C5: in every call of track_texts the exemplars passed are the global worst
\* and the global best (source, candidate, score) of the batch, first-seen on
\* ties, for every batch, one with only zero scores included.
C5_ExemplarsAreGlobalExtremes ==
  \A n \in 1..Len(track_calls) :
    track_calls[n].op = "track_texts" =>
      TrackTextsArgs(track_calls[n]) = ExpectedExemplars

\* The same for the batches in which some composite score is above 0, and for
\* the worst exemplar of every batch.
ExemplarsOfPositiveBatch ==
  \A n \in 1..Len(track_calls) :
    track_calls[n].op = "track_texts" =>
      /\ SubSeq(track_calls[n].args, 3, 5) = SubSeq(ExpectedExemplars, 1, 3)
      /\ MaxOf(single_scores[BestSource]) > 0 =>
           TrackTextsArgs(track_calls[n]) = ExpectedExemplars
      /\ MaxOf(single_scores[BestSource]) = 0 =>
           SubSeq(track_calls[n].args, 6, 8) = <<EmptyText, EmptyText, 0>>

\* C7: a reward model that raises ends the call: the exception leaves score,
\* no result is returned, neither track_scores nor track_texts has been
\* called, and the tracker is as it was when the call began.
C7_RewardFailurePropagates ==
  /\ raised = "reward_model" => pc = "raised"
  /\ pc = "raised" =>
       /\ raised = "reward_model"
       /\ result = NoResult
       /\ track_calls = <<>>
       /\ tracker = EmptyTracker

C7_Witness ==
  /\ pc = "raised"
  /\ raised = "reward_model"
  /\ len_sources = 2
  /\ idx = 1
  /\ all_scores[1] > 0

\* ----------------------------------------------- claims: single_score
\* The weighted sum of candidate i's normalised scores over the first k models.
RECURSIVE WeightedSum(_, _)
WeightedSum(i, k) ==
  IF k = 0 THEN 0
  ELSE WeightedSum(i, k - 1) + Sigmoid(s_raw[k][i]) * reward_weights[k]

WrongLanguage(i) == s_detected[i] # DetectFail /\ s_detected[i] # s_target

\* C2: a candidate detected as another language than target_lang scores
\* exactly 0 at its own index whatever the reward models returned for it, and
\* a candidate detected as target_lang keeps its own weighted sum, whatever the
\* other candidates' languages are.
C2_WrongLanguageScoresZero ==
  s_pc = "done" =>
    \A i \in 1..Len(s_detected) :
      /\ WrongLanguage(i) => s_result[i] = 0
      /\ s_detected[i] = s_target => s_result[i] = WeightedSum(i, NumModels)

C2_Witness ==
  /\ s_pc = "done"
  /\ Len(s_detected) = 2
  /\ WrongLanguage(1)
  /\ \A k \in 1..NumModels : s_raw[k][1] = 40
  /\ s_result[1] = 0
  /\ s_detected[2] = s_target
  /\ s_result[2] = ScoreOne

\* C3: single_score returns one value per candidate, the value at index i
\* being candidate i's (0 or its own weighted sum), and every value lies in
\* [0, 1].
C3_OnePerCandidateInUnitRange ==
  s_pc = "done" =>
    /\ Len(s_result) = Len(s_detected)
    /\ \A i \in 1..Len(s_result) :
         /\ s_result[i] >= 0
         /\ s_result[i] <= ScoreOne
         /\ s_result[i] \in {0, WeightedSum(i, NumModels)}

C3_Witness ==
  /\ s_pc = "done"
  /\ Len(s_result) = 2
  /\ s_result[1] = ScoreOne
  /\ s_result[2] > 0
  /\ s_result[2] < ScoreOne \div 2

\* C6: the language filter has one entry per candidate, each 0 or 1, and the
\* entry is 1 exactly when detection succeeded with target_lang; a candidate
\* whose detection raised gets 0 and those after it are still evaluated.
C6_LanguageFilter ==
  s_pc = "done" =>
    /\ Len(s_lang_filter) = Len(s_detected)
    /\ \A i \in 1..Len(s_lang_filter) :
         /\ s_lang_filter[i] \in {0, 1}
         /\ s_lang_filter[i] = 1 <=>
              (s_detected[i] # DetectFail /\ s_detected[i] = s_target)

C6_Witness ==
  /\ s_pc = "done"
  /\ Len(s_detected) = 2
  /\ s_detected[1] = DetectFail
  /\ s_detected[2] = s_target
  /\ s_lang_filter = <<0, 1>>

\* ------------------------------------------------- claims: generation
LangSet == {langs[i] : i \in 1..Len(langs)}
PriorSet == {prior_langs[i] : i \in 1..Len(prior_langs)}
PairSelected == g_pc \in {"sampling", "returned", "raised"}

\* C8: a selected pair is an ordered pair of two different supported
\* languages; drawn with random_0_1 < 0.95 both are prior languages, drawn
\* otherwise at least one of them is not.
C8_SelectedPair ==
  PairSelected =>
    /\ Len(lang_pair) = 2
    /\ lang_pair[1] \in LangSet
    /\ lang_pair[2] \in LangSet
    /\ lang_pair[1] # lang_pair[2]
    /\ random_0_1 < PriorShare => (lang_pair[1] \in PriorSet /\ lang_pair[2] \in PriorSet)
    /\ random_0_1 >= PriorShare => ~(lang_pair[1] \in PriorSet /\ lang_pair[2] \in PriorSet)

C8_Witness ==
  /\ PairSelected
  /\ random_0_1 >= PriorShare
  /\ lang_pair[1] \in PriorSet
  /\ lang_pair[2] \notin PriorSet

\* C9: PeerSum.sample_case raises ValueError for every code but "en", and for
\* "en" returns a record of the dataset.
C9_PeerSumSampleCase ==
  g_pc = "peer_done" =>
    /\ peer_language # "en" => peer_outcome = ValueError
    /\ peer_language = "en" =>
         /\ peer_outcome # ValueError
         /\ peer_outcome.text[1] = "peer_sum"
         /\ peer_outcome.text[3] \in 0..(dataset_len - 1)

C9_Witness ==
  /\ g_pc = "peer_done"
  /\ peer_language = "pl"
  /\ peer_outcome = ValueError

SupportedCodes(d) == IF d = "peer_sum" THEN peer_sum_valid_ln ELSE valid_ln[d]

\* C10: generate_cases never fails with ValueError: the source language of a
\* selected pair has a registered dataset, every dataset registered for it
\* supports it, and every prompt of the call comes from the one dataset and
\* source language chosen at its start.
C10_GenerateCasesNeverInvalid ==
  /\ sample_error = "none"
  /\ g_pc # "raised"
  /\ PairSelected =>
       /\ Len(datasets[lang_pair[1]]) >= 1
       /\ \A n \in 1..Len(datasets[lang_pair[1]]) :
            lang_pair[1] \in SupportedCodes(datasets[lang_pair[1]][n])
       /\ InSeq(source_dataset, datasets[lang_pair[1]])
       /\ \A n \in 1..Len(samples) :
            /\ samples[n].dataset = source_dataset
            /\ samples[n].language = lang_pair[1]
  /\ g_pc = "returned" => Len(samples) = count

C10_Witness ==
  /\ g_pc = "returned"
  /\ count = 2
  /\ Len(samples) = 2
  /\ lang_pair[1] = "pl"
  /\ source_dataset = "exams"

====
